---- MODULE Spec2Model ----
(***************************************************************************)
(* LAModbus: the Modbus master engine (ModbusClient, main process), the    *)
(* IPC command surface and the renderer's ModbusDebugger command paths     *)
(* (connect / read / write / auto-read interval).                          *)
(*                                                                         *)
(* JavaScript is run-to-completion: every action below is one task of the  *)
(* event loop (a handler up to its first await, or the continuation that   *)
(* runs when an awaited transport call or IPC reply settles).              *)
(***************************************************************************)
EXTENDS Integers, Sequences, FiniteSets, TLC

\* ------------------------------------------------------------- bounds
\* transport objects (new ModbusRTU()) alive at the same time
MaxHandles == 2
\* engine calls that may be unresolved at the same time
MaxCalls == 2
\* callbacks that may subscribe to the logger, entries in its list, and
\* pushTxRx calls in one run
MaxSubscribers == 3
MaxListLen == 3
MaxEntries == 2
Slots == 1..MaxCalls
Handles == 1..MaxHandles

\* ------------------------------------------------- JavaScript helpers
\* NaN, the result of a failed parseInt: a value no parse of the inputs gives
NaN == -(10 ^ 9)

\* undefined, where it stands for a number (an array read out of range)
Undefined == NaN - 1

\* arithmetic and comparisons with NaN: NaN spreads, every comparison is false
JsAdd(a, b) == IF a = NaN \/ b = NaN THEN NaN ELSE a + b
JsSub(a, b) == IF a = NaN \/ b = NaN THEN NaN ELSE a - b
JsLt(a, b) == a # NaN /\ b # NaN /\ a < b
JsGe(a, b) == a # NaN /\ b # NaN /\ a >= b

\* values[idx] of a JavaScript array
JsIndex(values, idx) ==
    IF idx # NaN /\ idx >= 0 /\ idx < Len(values) THEN values[idx + 1] ELSE Undefined

Falsy(n) == n = NaN \/ n = 0

OrElse(n, d) == IF Falsy(n) THEN d ELSE n

\* a JS string is a sequence of one-character strings
DigitChars == <<"0", "1", "2", "3", "4", "5", "6", "7", "8", "9",
                "a", "b", "c", "d", "e", "f">>

Lower(ch) ==
    CASE ch = "A" -> "a" [] ch = "B" -> "b" [] ch = "C" -> "c"
      [] ch = "D" -> "d" [] ch = "E" -> "e" [] ch = "F" -> "f"
      [] ch = "X" -> "x" [] OTHER -> ch

\* value of a digit in the given radix, or -1 when it is no digit of it
DigitVal(ch, base) ==
    LET hits == {i \in 1..base : DigitChars[i] = Lower(ch)}
    IN  IF hits = {} THEN -1 ELSE (CHOOSE i \in hits : TRUE) - 1

RECURSIVE TrimLeft(_)
TrimLeft(s) == IF Len(s) > 0 /\ s[1] = " " THEN TrimLeft(Tail(s)) ELSE s

RECURSIVE TrimRight(_)
TrimRight(s) ==
    IF Len(s) > 0 /\ s[Len(s)] = " " THEN TrimRight(SubSeq(s, 1, Len(s) - 1)) ELSE s

\* String.prototype.trim
Trim(s) == TrimRight(TrimLeft(s))

\* number of leading characters of s that are digits in the radix
RECURSIVE DigitPrefix(_, _)
DigitPrefix(s, base) ==
    IF Len(s) > 0 /\ DigitVal(s[1], base) >= 0
    THEN 1 + DigitPrefix(Tail(s), base)
    ELSE 0

RECURSIVE DigitsValue(_, _, _)
DigitsValue(s, base, acc) ==
    IF Len(s) = 0 THEN acc
    ELSE DigitsValue(Tail(s), base, acc * base + DigitVal(s[1], base))

StartsWith0x(s) == Len(s) >= 2 /\ s[1] = "0" /\ Lower(s[2]) = "x"

\* a parse that reads four digits at most
ParseIntFourDigits(s, base) ==
    LET t == TrimLeft(s)
        signed == Len(t) > 0 /\ t[1] \in {"-", "+"}
        neg == Len(t) > 0 /\ t[1] = "-"
        u == IF signed THEN Tail(t) ELSE t
        v == IF base = 16 /\ StartsWith0x(u) THEN SubSeq(u, 3, Len(u)) ELSE u
        p == DigitPrefix(v, base)
        n == IF p > 4 THEN 4 ELSE p
        val == DigitsValue(SubSeq(v, 1, n), base, 0)
    IN  IF n = 0 THEN NaN ELSE IF neg THEN 0 - val ELSE val

\* parseInt(s, radix) for radix 10 and 16: leading blanks and a sign are
\* skipped, radix 16 accepts a 0x prefix, the longest digit prefix is read,
\* and no digit at all gives NaN
ParseInt(s, base) ==
    LET t == TrimLeft(s)
        signed == Len(t) > 0 /\ t[1] \in {"-", "+"}
        neg == Len(t) > 0 /\ t[1] = "-"
        u == IF signed THEN Tail(t) ELSE t
        v == IF base = 16 /\ StartsWith0x(u) THEN SubSeq(u, 3, Len(u)) ELSE u
        n == DigitPrefix(v, base)
        val == DigitsValue(SubSeq(v, 1, n), base, 0)
    IN  IF n = 0 THEN NaN ELSE IF neg THEN 0 - val ELSE val

\* parseFC  (ModbusDebugger.tsx)
parseFC(input) ==
    LET s == Trim(input)
    IN  IF StartsWith0x(s) THEN ParseInt(s, 16) ELSE ParseInt(s, 10)

\* Number.prototype.toString(radix) of an integer: lower-case digits, a
\* minus sign for a negative number
RECURSIVE DigitString(_, _)
DigitString(n, radix) ==
    IF n < radix THEN <<DigitChars[n + 1]>>
    ELSE DigitString(n \div radix, radix) \o <<DigitChars[(n % radix) + 1]>>

NumberToString(n, radix) ==
    IF n < 0 THEN <<"-">> \o DigitString(0 - n, radix) ELSE DigitString(n, radix)

Upper(ch) ==
    CASE ch = "a" -> "A" [] ch = "b" -> "B" [] ch = "c" -> "C"
      [] ch = "d" -> "D" [] ch = "e" -> "E" [] ch = "f" -> "F"
      [] ch = "x" -> "X" [] OTHER -> ch

\* String.prototype.toUpperCase
ToUpperCase(s) == [i \in 1..Len(s) |-> Upper(s[i])]

\* String.prototype.padStart(width, '0')
PadStart(s, width) ==
    IF Len(s) >= width THEN s ELSE [i \in 1..(width - Len(s)) |-> "0"] \o s

\* ------------------------------------------------------ engine state
VARIABLES
    client,     \* ModbusClient.client: 0 is null, else the handle it holds
    handles,    \* the transport objects constructed so far
    calls       \* the engine calls (promises) that exist: one record per slot

engineVars == <<client, handles, calls>>

FreeHandle == [st |-> "free", timeout |-> 0, id |-> 0, tx |-> FALSE, rx |-> FALSE]

NoValues == [scalar |-> FALSE, list |-> <<>>]

NoOptions == [mode |-> "RTU", ipAddress |-> "", serialPort |-> "",
              timeout |-> 0, slaveId |-> 0]

IdleCall ==
    [op |-> "none", pc |-> "idle", detached |-> FALSE,
     fc |-> 0, address |-> 0, count |-> 0, values |-> NoValues,
     opts |-> NoOptions,
     h |-> 0,              \* the handle the call works on
     preClient |-> 0,      \* the handle slot when the call began
     preOpen |-> FALSE,    \* whether that handle was open then
     preBusy |-> FALSE,    \* whether another call was in progress then
     tcalls |-> <<>>,      \* transport calls the call has issued
     frame |-> <<>>,       \* the bytes handed to writeCustomFC
     pub |-> 0,            \* pushTxRx calls the call has made
     thrown |-> FALSE,     \* an exception thrown inside a transport callback
     rejected |-> FALSE,   \* the transport rejected the call's transaction
     ok |-> TRUE, err |-> <<>>, data |-> <<>>]

\* ModbusRTU.isOpen
IsOpen(h) == h # 0 /\ handles[h].st = "open"

SlotFree(c) == calls[c].pc \in {"idle", "done"}

NewCall(op, detached) ==
    [IdleCall EXCEPT !.op = op, !.pc = "start", !.detached = detached,
                     !.preClient = client, !.preOpen = IsOpen(client),
                     !.preBusy = \E d \in Slots : ~SlotFree(d)]

\* the promise settles: an awaited call keeps its result for the awaiting
\* caller, a call nobody awaits leaves nothing behind
Resolve(call) ==
    IF call.detached THEN IdleCall ELSE [call EXCEPT !.pc = "done", !.ok = TRUE]

Reject(call, e) ==
    IF call.detached THEN IdleCall
    ELSE [call EXCEPT !.pc = "done", !.ok = FALSE, !.err = e]

TCall(kind, h, address, n) == <<kind, h, address, n>>

\* the cause passed on as it is
ConnectErrorUnwrapped(cause) == <<cause, "">>

\* `Connection failed: ${err?.message ?? String(err)}`
ConnectError(cause) == <<"Connection failed: ", cause>>

OpenErrors == {"ENOENT"}
TransportErrors == {"Timed out"}

\* ------------------------------------------------- transport library
\* a value of a read result: JavaScript boolean (coils) or number
Bool(b) == [t |-> "boolean", b |-> b, n |-> 0]
Num(n) == [t |-> "number", b |-> FALSE, n |-> n]

RegValues == {0, 1}

\* what a device may answer to a read of `count` items
TransportData(fc, count) ==
    IF fc \in {1, 2}
    THEN {[i \in 1..count |-> Bool(f[i])] : f \in [1..count -> BOOLEAN]}
    ELSE {[i \in 1..count |-> Num(f[i])] : f \in [1..count -> RegValues]}

\* ------------------------------------------- ModbusClient (engine)
\* case 2 falling into the coil read
ReadKindCoilsForInputs(fc) ==
    CASE fc = 1 -> "readCoils"
      [] fc = 2 -> "readCoils"
      [] fc = 3 -> "readHoldingRegisters"
      [] fc = 4 -> "readInputRegisters"
      [] OTHER -> "unsupported"

\* the switch of ModbusClient.read: the transport primitive of a code
ReadKind(fc) ==
    CASE fc = 1 -> "readCoils"
      [] fc = 2 -> "readDiscreteInputs"
      [] fc = 3 -> "readHoldingRegisters"
      [] fc = 4 -> "readInputRegisters"
      [] OTHER -> "unsupported"

\* case 0x10 falling into the single-register write
WriteKindSingleForMulti(fc) ==
    CASE fc = 5 -> "writeCoil"
      [] fc = 6 -> "writeRegister"
      [] fc = 15 -> "writeCoils"
      [] fc = 16 -> "writeRegister"
      [] OTHER -> "writeCustomFC"

\* the switch of ModbusClient.write
WriteKind(fc) ==
    CASE fc = 5 -> "writeCoil"
      [] fc = 6 -> "writeRegister"
      [] fc = 15 -> "writeCoils"
      [] fc = 16 -> "writeRegisters"
      [] OTHER -> "writeCustomFC"

\* the guard without its isOpen test
NotConnectedNullOnly == client = 0

\* the guard of read and write: !this.client || !this.client.isOpen
NotConnected == client = 0 \/ ~IsOpen(client)

NotConnectedError == <<"Modbus client is not connected.", "">>

\* pushing only when both buffers are there
tryLogTrafficNeedsBoth(cl, hs) ==
    IF cl = 0 THEN 0
    ELSE IF hs[cl].st = "created" THEN 0
    ELSE IF hs[cl].tx /\ hs[cl].rx THEN 1 ELSE 0

\* tryLogTraffic: how many entries it pushes to the logger, for the handle
\* slot cl and the transport objects hs it finds
tryLogTraffic(cl, hs) ==
    IF cl = 0 THEN 0
    ELSE IF hs[cl].st = "created" THEN 0
    ELSE IF hs[cl].tx \/ hs[cl].rx THEN 1 ELSE 0

\* the required field of the mode is absent
MissingField(o) ==
    IF o.mode = "TCP" THEN o.ipAddress = "" ELSE o.serialPort = ""

MissingFieldError(o) ==
    IF o.mode = "TCP" THEN "TCP mode requires ipAddress"
    ELSE "RTU mode requires serialPort"

OpenKind(o) == IF o.mode = "TCP" THEN "connectTCP" ELSE "connectRTU"

\* close called on the old handle without awaiting its callback
ClosesOldWithoutAwait == FALSE

\* whether connect waits for the old handle's close callback before it
\* constructs and opens the new one (the await of line 19)
AwaitsOldClose == TRUE

\* a transport object nobody can reach any more (closed, not in the handle
\* slot, not used by a call in progress) is garbage: its place is free again.
\* `except` is the call that is about to let go of its handle.
Collect(hs, cl, cs, except) ==
    [h \in Handles |->
        IF /\ hs[h].st = "closed"
           /\ h # cl
           /\ \A c \in Slots :
                 c # except => ~(cs[c].pc \notin {"idle", "done"} /\ cs[c].h = h)
        THEN FreeHandle
        ELSE hs[h]]

\* connect, from `new ModbusRTU()` on: call is the call so far, hs the
\* transport objects and cl the handle slot at this point
ConnectOpen(c, call, hs, cl) ==
    LET live == Collect(hs, cl, calls, c)
        free == {h \in Handles : live[h].st = "free"}
        h == CHOOSE x \in free : \A y \in free : x <= y
        o == call.opts
        made == [live EXCEPT ![h] = [FreeHandle EXCEPT !.st = "created",
                                         !.timeout = OrElse(o.timeout, 1000)]]
    IN  /\ free # {}
        /\ IF MissingField(o)
           THEN \* throw inside try: catch closes newClient, clears the slot
                /\ client' = 0
                /\ calls' = [calls EXCEPT ![c] =
                      Reject([call EXCEPT !.h = h,
                                !.tcalls = Append(@, TCall("close", h, 0, 0))],
                             ConnectError(MissingFieldError(o)))]
                /\ handles' = Collect([made EXCEPT ![h].st = "closed"], 0, calls', 0)
           ELSE /\ client' = cl
                /\ calls' = [calls EXCEPT ![c] =
                      [call EXCEPT !.pc = "open", !.h = h,
                         !.tcalls = Append(@, TCall(OpenKind(o), h, 0, 0))]]
                /\ handles' = [made EXCEPT ![h].st = "opening"]

\* connect that goes straight to the new handle and leaves the old one open
ConnectBeginKeepsOld(c, o) ==
    /\ SlotFree(c)
    /\ ConnectOpen(c, [NewCall("connect", FALSE) EXCEPT !.opts = o],
                   handles, client)

\* connect(options), up to its first await
ConnectBegin(c, o) ==
    /\ SlotFree(c)
    /\ LET call == [NewCall("connect", FALSE) EXCEPT !.opts = o]
           old == client
       IN  IF old # 0 /\ IsOpen(old)
           THEN LET closing == [handles EXCEPT ![old].st = "closing"]
                    waiting == [call EXCEPT !.pc = "closeOld", !.h = old,
                                   !.tcalls = <<TCall("close", old, 0, 0)>>]
                IN  IF AwaitsOldClose
                    THEN /\ client' = 0
                         /\ handles' = closing
                         /\ calls' = [calls EXCEPT ![c] = waiting]
                    ELSE ConnectOpen(c, waiting, closing, 0)
           ELSE ConnectOpen(c, call, handles, 0)

\* the close callback of the old handle fires; connect goes on
ConnectCloseDone(c) ==
    /\ calls[c].op = "connect" /\ calls[c].pc = "closeOld"
    /\ ConnectOpen(c, calls[c],
                   [handles EXCEPT ![calls[c].h].st = "closed"], client)

\* connectTCP / connectRTU settles
ConnectOpenDone(c, opened, cause) ==
    /\ calls[c].op = "connect" /\ calls[c].pc = "open"
    /\ LET h == calls[c].h
       IN  IF opened
           THEN /\ client' = h
                /\ calls' = [calls EXCEPT ![c] = Resolve(calls[c])]
                /\ handles' = Collect([handles EXCEPT ![h].st = "open",
                                  ![h].id = OrElse(calls[c].opts.slaveId, 1)],
                                  h, calls', 0)
           ELSE /\ client' = 0
                /\ calls' = [calls EXCEPT ![c] =
                      Reject([calls[c] EXCEPT
                                !.tcalls = Append(@, TCall("close", h, 0, 0))],
                             ConnectError(cause))]
                /\ handles' = Collect([handles EXCEPT ![h].st = "closed"],
                                      0, calls', 0)

\* disconnect without `this.client = null`
DisconnectSlotKept(old) == old

\* the handle slot disconnect leaves behind
DisconnectSlot(old) == 0

\* disconnect(), up to its first await
DisconnectBegin(c, detached) ==
    /\ SlotFree(c)
    /\ LET call == NewCall("disconnect", detached)
           old == client
       IN  IF old # 0
           THEN /\ client' = DisconnectSlot(old)
                /\ IF IsOpen(old)
                   THEN /\ calls' = [calls EXCEPT ![c] =
                              [call EXCEPT !.pc = "closing", !.h = old,
                                 !.tcalls = <<TCall("close", old, 0, 0)>>]]
                        /\ handles' = [handles EXCEPT ![old].st = "closing"]
                   ELSE /\ calls' = [calls EXCEPT ![c] = Resolve(call)]
                        /\ handles' = Collect(handles, client', calls', 0)
           ELSE /\ calls' = [calls EXCEPT ![c] = Resolve(call)]
                /\ UNCHANGED <<client, handles>>

\* the close callback fires; the promise disconnect returned resolves
DisconnectCloseDone(c) ==
    /\ calls[c].op = "disconnect" /\ calls[c].pc = "closing"
    /\ calls' = [calls EXCEPT ![c] = Resolve(calls[c])]
    /\ handles' = Collect([handles EXCEPT ![calls[c].h].st = "closed"],
                          client, calls', 0)
    /\ UNCHANGED client

UnsupportedRead(fc) == <<"Unsupported read function code: ", ToString(fc)>>

\* read(params), up to its first await
ReadBegin(c, fc, address, count) ==
    /\ SlotFree(c)
    /\ LET call == [NewCall("read", FALSE) EXCEPT
                       !.fc = fc, !.address = address, !.count = count]
       IN  IF NotConnected
           THEN /\ calls' = [calls EXCEPT ![c] = Reject(call, NotConnectedError)]
                /\ UNCHANGED handles
           ELSE IF ReadKind(fc) # "unsupported"
           THEN /\ handles' = [handles EXCEPT ![client].tx = TRUE]
                /\ calls' = [calls EXCEPT ![c] =
                      [call EXCEPT !.pc = "xfer", !.h = client,
                         !.tcalls = <<TCall(ReadKind(fc), client, address, count)>>]]
           ELSE /\ calls' = [calls EXCEPT ![c] =
                      Reject([call EXCEPT !.pub = tryLogTraffic(client, handles)],
                             UnsupportedRead(fc))]
                /\ UNCHANGED handles
    /\ UNCHANGED client

\* a read that clears the handle slot when the transport rejects it
ReadDoneDropsHandle(c, answered, data, cause) ==
    /\ calls[c].op = "read" /\ calls[c].pc = "xfer"
    /\ LET h == calls[c].h
           hs == IF answered /\ handles[h].st = "open"
                 THEN [handles EXCEPT ![h].rx = TRUE] ELSE handles
           logged == [calls[c] EXCEPT !.pub = tryLogTraffic(client, hs),
                                      !.rejected = ~answered]
       IN  /\ calls' = [calls EXCEPT ![c] =
                 IF answered THEN Resolve([logged EXCEPT !.data = data])
                 ELSE Reject(logged, <<cause, "">>)]
           /\ client' = IF answered THEN client ELSE 0
           /\ handles' = Collect(hs, client', calls', 0)

\* the transport read settles; finally tryLogTraffic
ReadDone(c, answered, data, cause) ==
    /\ calls[c].op = "read" /\ calls[c].pc = "xfer"
    /\ LET h == calls[c].h
           hs == IF answered /\ handles[h].st = "open"
                 THEN [handles EXCEPT ![h].rx = TRUE] ELSE handles
           logged == [calls[c] EXCEPT !.pub = tryLogTraffic(client, hs),
                                      !.rejected = ~answered]
       IN  /\ calls' = [calls EXCEPT ![c] =
                 IF answered THEN Resolve([logged EXCEPT !.data = data])
                 ELSE Reject(logged, <<cause, "">>)]
           /\ handles' = Collect(hs, client, calls', 0)
    /\ UNCHANGED client

\* the transport drops the link (peer closes, port unplugged): isOpen
\* turns false under the engine, which still holds the handle
LinkDrop(h) ==
    /\ handles[h].st = "open"
    /\ \A c \in Slots : ~(calls[c].pc = "xfer" /\ calls[c].h = h)
    /\ handles' = Collect([handles EXCEPT ![h] = [FreeHandle EXCEPT !.st = "closed"]],
                          client, calls, 0)
    /\ UNCHANGED <<client, calls>>

\* a write payload: one value (number) or a list of values
Scalar(v) == [scalar |-> TRUE, list |-> <<v>>]
List(vs) == [scalar |-> FALSE, list |-> vs]

\* the two bytes in little-endian order
Bytes16LittleEndian(v) ==
    IF v \in {NaN, Undefined} THEN <<0, 0>>
    ELSE <<v % 256, (v % 65536) \div 256>>

\* DataView.setUint16 / setInt16, big-endian: the two bytes of v modulo 2^16
Bytes16(v) ==
    IF v \in {NaN, Undefined} THEN <<0, 0>>
    ELSE <<(v % 65536) \div 256, v % 256>>

RegisterBytes(vs) ==
    [k \in 1..(2 * Len(vs)) |-> Bytes16(vs[(k + 1) \div 2])[2 - (k % 2)]]

\* the length test one byte too generous
createCustomWritePayloadUpTo256(address, values) ==
    LET registerCount == Len(values.list)
        dataBytesLength == registerCount * 2
    IN  IF address < 0 \/ address > 65535
        THEN [ok |-> FALSE, err |-> <<"Invalid Address", "">>, bytes |-> <<>>]
        ELSE IF values.scalar
        THEN [ok |-> FALSE, err |-> <<"RangeError", "">>, bytes |-> <<>>]
        ELSE IF dataBytesLength > 256
        THEN [ok |-> FALSE, err |-> <<"Data length exceeds", "">>, bytes |-> <<>>]
        ELSE [ok |-> TRUE, err |-> <<>>,
              bytes |-> Bytes16(address) \o Bytes16(registerCount)
                        \o <<dataBytesLength % 256>> \o RegisterBytes(values.list)]

\* createCustomWritePayload(address, data): the frame, or the error thrown.
\* A number passed as data has no length: the buffer gets length 0 and the
\* first setUint16 throws a RangeError.
createCustomWritePayload(address, values) ==
    LET registerCount == Len(values.list)
        dataBytesLength == registerCount * 2
    IN  IF address < 0 \/ address > 65535
        THEN [ok |-> FALSE, err |-> <<"Invalid Address", "">>, bytes |-> <<>>]
        ELSE IF values.scalar
        THEN [ok |-> FALSE, err |-> <<"RangeError", "">>, bytes |-> <<>>]
        ELSE IF dataBytesLength > 255
        THEN [ok |-> FALSE, err |-> <<"Data length exceeds", "">>, bytes |-> <<>>]
        ELSE [ok |-> TRUE, err |-> <<>>,
              bytes |-> Bytes16(address) \o Bytes16(registerCount)
                        \o <<dataBytesLength % 256>> \o RegisterBytes(values.list)]

\* write(params), up to its first await
WriteBegin(c, fc, address, values) ==
    /\ SlotFree(c)
    /\ LET call == [NewCall("write", FALSE) EXCEPT
                       !.fc = fc, !.address = address, !.values = values,
                       !.count = Len(values.list)]
           payload == createCustomWritePayload(address, values)
           sent == [call EXCEPT !.pc = "xfer", !.h = client,
                      !.frame = IF WriteKind(fc) = "writeCustomFC"
                                THEN payload.bytes ELSE <<>>,
                      !.tcalls = <<TCall(WriteKind(fc), client, address,
                                         Len(values.list))>>]
       IN  IF NotConnected
           THEN /\ calls' = [calls EXCEPT ![c] = Reject(call, NotConnectedError)]
                /\ UNCHANGED handles
           ELSE IF WriteKind(fc) = "writeCustomFC" /\ ~payload.ok
           THEN /\ calls' = [calls EXCEPT ![c] =
                      Reject([call EXCEPT !.pub = tryLogTraffic(client, handles)],
                             payload.err)]
                /\ UNCHANGED handles
           ELSE /\ handles' = [handles EXCEPT ![client].tx = TRUE]
                /\ calls' = [calls EXCEPT ![c] = sent]
    /\ UNCHANGED client

\* the transport write settles; finally tryLogTraffic. A rejected custom
\* frame is warned about and the promise resolved; the throw after resolve()
\* happens inside the transport's callback.
WriteDone(c, answered, cause) ==
    /\ calls[c].op = "write" /\ calls[c].pc = "xfer"
    /\ LET h == calls[c].h
           custom == WriteKind(calls[c].fc) = "writeCustomFC"
           hs == IF answered /\ handles[h].st = "open"
                 THEN [handles EXCEPT ![h].rx = TRUE] ELSE handles
           logged == [calls[c] EXCEPT !.pub = tryLogTraffic(client, hs),
                                      !.rejected = ~answered,
                                      !.thrown = custom /\ ~answered]
       IN  /\ calls' = [calls EXCEPT ![c] =
                 IF answered \/ custom THEN Resolve(logged)
                 ELSE Reject(logged, <<cause, "">>)]
           /\ handles' = Collect(hs, client, calls', 0)
    /\ UNCHANGED client

\* ------------------------------------------ renderer: ModbusDebugger
VARIABLES
    settings,       \* ConnectionSettings of the form
    connected,      \* useState connected
    sending,        \* useState sending (the busy flag)
    autoRead,       \* useState autoRead
    standardFc,     \* the function select
    customFcValue,  \* the custom function input
    customFcMode,   \* Std / Custom toggle
    address,        \* the address input (text)
    addrFormat,     \* "DEC" or "HEX"
    dataFormat,     \* the display format of the register grid
    countParam,     \* the count input (text)
    monitorData,    \* the snapshot, or none
    selection,      \* the selected index range, or none
    logs,           \* the log lines the last task added (addLog)
    uiops,          \* the handlers that wait for a reply, by the call awaited
    interval,       \* whether the auto-read effect holds a setInterval timer
    clipboard,      \* the rows last written to the clipboard
    editing,        \* the RegisterBlock that has the focus: isEditing, editingVal
    subscribers,    \* ModbusLogger.subscribers
    delivery        \* the forEach of the pushTxRx call that is running, if any

gridVars == <<clipboard, editing>>

loggerVars == <<subscribers, delivery>>

cfgVars == <<settings, standardFc, customFcValue, customFcMode, address,
             addrFormat, dataFormat, countParam, gridVars, loggerVars>>

uiVars == <<cfgVars, connected, sending, autoRead, monitorData, selection,
            logs, uiops, interval>>

vars == <<engineVars, uiVars>>

NoMonitor == [present |-> FALSE, startAddr |-> 0, values |-> <<>>]
NoSelection == [present |-> FALSE, start |-> 0, end |-> 0]
NoEdit == [active |-> FALSE, address |-> 0, text |-> <<>>]
NoDelivery ==
    [active |-> FALSE,
     entry |-> 0,      \* the number of the entry: how many pushTxRx calls so far
     arr |-> <<>>,     \* the array object forEach walks
     same |-> FALSE,   \* whether this.subscribers still is that object
     len |-> 0,        \* the length forEach read before its first call
     k |-> 0,          \* the callbacks called so far
     start |-> <<>>,   \* the list when pushTxRx was called
     got |-> <<>>]     \* the callbacks that received the entry, in order

NoOp == [kind |-> "none", tick |-> FALSE, silent |-> FALSE, fc |-> 0,
         address |-> 0, count |-> 0, conn |-> FALSE]

\* DEFAULT_SETTINGS, as far as the engine reads them
DEFAULT_SETTINGS ==
    [mode |-> "RTU", ipAddress |-> "127.0.0.1", serialPort |-> "",
     timeout |-> 1000, slaveId |-> 1]

\* the serial ports scanSerialPorts finds
PortList == <<"COM3">>

\* what the user may select or type in this model
StandardFcTexts == {<<"3">>, <<"6">>}
CustomFcTexts == {<<>>, <<"6", "5">>}
AddressTexts == {<<"0">>, <<"z">>}
CountTexts == {<<"1">>}

\* const effectiveFc = customFcMode ? customFcValue : standardFc
effectiveFc == IF customFcMode THEN customFcValue ELSE standardFc

\* addLog(dir, msg): the line a task adds to the log
\* a log call that appends nothing
addLogDropped(msg) == <<>>

addLog(msg) == <<msg>>

\* a call slot nobody uses: neither the engine nor a waiting handler
UiSlotFree(c) == calls[c].pc = "idle" /\ uiops[c].kind = "none"

\* the values of a read result as numbers: booleans become 0 / 1
\* every boolean mapped to 0
numValuesAllZero(res) ==
    [i \in 1..Len(res) |-> IF res[i].t = "boolean" THEN 0 ELSE res[i].n]

numValues(res) ==
    [i \in 1..Len(res) |->
        IF res[i].t = "boolean" THEN (IF res[i].b THEN 1 ELSE 0) ELSE res[i].n]

\* the dependency list without autoRead
EffectDepsWithoutAutoRead ==
    <<connected, effectiveFc, address, countParam, addrFormat, settings, sending>>

\* the dependency list of the auto-read effect
EffectDeps ==
    <<autoRead, connected, effectiveFc, address, countParam, addrFormat,
      settings, sending>>

\* the auto-read effect, run by the render that follows a state change: when
\* a dependency changed, the old interval is cleared and a new one is set
\* if (autoRead && connected && !sending)
AutoReadEffect ==
    interval' = IF EffectDeps' # EffectDeps
                THEN autoRead' /\ connected' /\ ~sending'
                ELSE interval

\* the lowest free call slot (the bound MaxCalls blocks a command when the
\* engine holds that many unresolved calls)
NextSlot(c) == UiSlotFree(c) /\ \A d \in Slots : d < c => ~UiSlotFree(d)

\* a handler that returns at once: nothing changes, nothing is logged
Returns ==
    /\ logs' = <<>>
    /\ UNCHANGED <<engineVars, cfgVars, connected, sending, autoRead,
                   monitorData, selection, uiops>>

\* a handler that fails before it sends anything: catch logs, finally
\* clears the busy flag
Throws(msg, clearBusy) ==
    /\ logs' = addLog(msg)
    /\ sending' = IF clearBusy THEN FALSE ELSE sending
    /\ UNCHANGED <<engineVars, cfgVars, connected, autoRead, monitorData,
                   selection, uiops>>

\* handleRead(silent), called by a poll tick (tick) or by the user
handleRead(silent, tick) ==
    LET base == IF addrFormat = "HEX" THEN 16 ELSE 10
        addrNum == ParseInt(address, base)
        fc0 == parseFC(effectiveFc)
        fcNum == IF ~customFcMode /\ fc0 \notin {1, 2, 3, 4} THEN 3 ELSE fc0
        count == OrElse(ParseInt(countParam, 10), 10)
    IN  IF sending THEN Returns
        ELSE IF addrNum = NaN THEN Throws("Read Error", ~silent)
        ELSE \E c \in Slots :
                /\ NextSlot(c)
                /\ ReadBegin(c, fcNum, addrNum, count)
                /\ uiops' = [uiops EXCEPT ![c] =
                      [NoOp EXCEPT !.kind = "read", !.tick = tick,
                         !.silent = silent, !.fc = fcNum,
                         !.address = addrNum, !.count = count]]
                /\ sending' = IF silent THEN sending ELSE TRUE
                /\ logs' = <<>>
                /\ UNCHANGED <<cfgVars, connected, autoRead, monitorData,
                               selection>>

\* whether auto-read stays switched on when a read fails (handleRead's catch
\* and finally leave autoRead alone)
AutoReadAfterReadError == autoRead

\* the snapshot dropped when a read fails
MonitorClearedOnReadError == NoMonitor

\* the snapshot after a failed read (handleRead's catch only logs)
MonitorAfterReadError == monitorData

\* the reply to handleRead's read arrives
ReadReturn(c) ==
    /\ uiops[c].kind = "read" /\ calls[c].pc = "done"
    /\ LET op == uiops[c]
           res == calls[c]
       IN  /\ IF res.ok
              THEN /\ selection' = NoSelection
                   /\ monitorData' = [present |-> TRUE, startAddr |-> op.address,
                                      values |-> numValues(res.data)]
                   /\ logs' = IF op.silent THEN <<>> ELSE addLog("Read OK")
                   /\ UNCHANGED autoRead
              ELSE /\ logs' = addLog("Read Error")
                   /\ autoRead' = AutoReadAfterReadError
                   /\ monitorData' = MonitorAfterReadError
                   /\ UNCHANGED selection
           /\ sending' = IF op.silent THEN sending ELSE FALSE
    /\ uiops' = [uiops EXCEPT ![c] = NoOp]
    /\ calls' = [calls EXCEPT ![c] = IdleCall]
    /\ UNCHANGED <<client, handles, cfgVars, connected>>
    /\ AutoReadEffect

\* handleWrite
handleWrite ==
    LET base == IF addrFormat = "HEX" THEN 16 ELSE 10
        startAddr == ParseInt(address, base)
        count == OrElse(ParseInt(countParam, 10), 1)
        fcNum == parseFC(effectiveFc)
        idx(i) == JsSub(JsAdd(startAddr, i), monitorData.startAddr)
        missing == \E i \in 0..(count - 1) :
                      JsLt(idx(i), 0) \/ JsGe(idx(i), Len(monitorData.values))
        valuesToWrite == [i \in 1..count |-> JsIndex(monitorData.values, idx(i - 1))]
        writeFC == IF ~customFcMode /\ fcNum \in {1, 2, 3, 4}
                   THEN (IF count = 1 THEN 6 ELSE 16)
                   ELSE fcNum
        payload == IF count = 1 THEN Scalar(valuesToWrite[1])
                   ELSE List(valuesToWrite)
    IN  IF sending \/ ~monitorData.present THEN Returns
        ELSE IF missing THEN Throws("Write Error", TRUE)
        ELSE \E c \in Slots :
                /\ NextSlot(c)
                /\ WriteBegin(c, writeFC, startAddr, payload)
                /\ uiops' = [uiops EXCEPT ![c] =
                      [NoOp EXCEPT !.kind = "write", !.fc = fcNum,
                         !.address = startAddr, !.count = count,
                         !.conn = connected]]
                /\ sending' = TRUE
                /\ logs' = <<>>
                /\ UNCHANGED <<cfgVars, connected, autoRead, monitorData,
                               selection>>

\* the reply to handleWrite's write arrives; on success the auto refresh
\* read is sent
WriteReturn(c) ==
    /\ uiops[c].kind = "write" /\ calls[c].pc = "done"
    /\ LET op == uiops[c]
           readFc == IF op.fc = 5 \/ op.fc = 15 THEN 1 ELSE 3
       IN  IF ~calls[c].ok
           THEN /\ logs' = addLog("Write Error")
                /\ sending' = FALSE
                /\ uiops' = [uiops EXCEPT ![c] = NoOp]
                /\ calls' = [calls EXCEPT ![c] = IdleCall]
                /\ UNCHANGED <<client, handles>>
           ELSE IF op.conn
           THEN /\ logs' = addLog("Write OK")
                /\ ReadBegin(c, readFc, op.address, op.count)
                /\ uiops' = [uiops EXCEPT ![c] = [op EXCEPT !.kind = "refresh"]]
                /\ UNCHANGED sending
           ELSE /\ logs' = addLog("Write OK")
                /\ sending' = FALSE
                /\ uiops' = [uiops EXCEPT ![c] = NoOp]
                /\ calls' = [calls EXCEPT ![c] = IdleCall]
                /\ UNCHANGED <<client, handles>>
    /\ UNCHANGED <<cfgVars, connected, autoRead, monitorData, selection>>
    /\ AutoReadEffect

\* the snapshot replaced by the refreshed range
reconcileReplaces(prev, startAddr, refreshValues) ==
    IF ~prev.present THEN NoMonitor
    ELSE [present |-> TRUE, startAddr |-> startAddr, values |-> refreshValues]

\* the functional update of the auto refresh: the fresh values laid over
\* the snapshot
reconcile(prev, startAddr, refreshValues) ==
    IF ~prev.present THEN NoMonitor
    ELSE [prev EXCEPT !.values =
            [j \in 1..Len(prev.values) |->
                LET i == JsSub(j - 1, JsSub(startAddr, prev.startAddr))
                IN  IF i # NaN /\ i >= 0 /\ i < Len(refreshValues)
                    THEN refreshValues[i + 1]
                    ELSE prev.values[j]]]

\* the reply to the auto refresh read arrives
RefreshReturn(c) ==
    /\ uiops[c].kind = "refresh" /\ calls[c].pc = "done"
    /\ IF calls[c].ok
       THEN /\ monitorData' = reconcile(monitorData, uiops[c].address,
                                        numValues(calls[c].data))
            /\ logs' = <<>>
       ELSE /\ logs' = addLog("Write Error")
            /\ UNCHANGED monitorData
    /\ sending' = FALSE
    /\ uiops' = [uiops EXCEPT ![c] = NoOp]
    /\ calls' = [calls EXCEPT ![c] = IdleCall]
    /\ UNCHANGED <<client, handles, cfgVars, connected, autoRead,
                   selection>>
    /\ AutoReadEffect

\* ipcMain.handle('modbus-disconnect'): whether the handler awaits
\* client.disconnect() before it replies (it calls it and returns true)
IpcDisconnectAwaits == FALSE

\* handleConnect: the Connect / Disconnect button (disabled while sending)
ClickConnect ==
    /\ ~sending
    /\ IF connected
       THEN \E c \in Slots :
               /\ NextSlot(c)
               /\ DisconnectBegin(c, ~IpcDisconnectAwaits)
               /\ uiops' = [uiops EXCEPT ![c] = [NoOp EXCEPT !.kind = "disconnect"]]
               /\ sending' = TRUE
               /\ logs' = <<>>
               /\ UNCHANGED <<cfgVars, connected, autoRead, monitorData, selection>>
       ELSE IF settings.mode = "RTU" /\ settings.serialPort = ""
       THEN Returns    \* alert('Select Port'); finally clears the flag again
       ELSE \E c \in Slots :
               /\ NextSlot(c)
               /\ ConnectBegin(c, settings)
               /\ uiops' = [uiops EXCEPT ![c] = [NoOp EXCEPT !.kind = "connect"]]
               /\ sending' = TRUE
               /\ logs' = <<>>
               /\ UNCHANGED <<cfgVars, connected, autoRead, monitorData, selection>>
    /\ AutoReadEffect

\* a disconnect reply that leaves auto-read as it was
DisconnectReturnKeepsAuto(c) ==
    /\ uiops[c].kind = "disconnect"
    /\ IF IpcDisconnectAwaits
       THEN /\ calls[c].pc = "done"
            /\ calls' = [calls EXCEPT ![c] = IdleCall]
       ELSE UNCHANGED calls
    /\ connected' = FALSE
    /\ logs' = addLog("Disconnected")
    /\ sending' = FALSE
    /\ uiops' = [uiops EXCEPT ![c] = NoOp]
    /\ UNCHANGED <<client, handles, cfgVars, autoRead, monitorData, selection>>
    /\ AutoReadEffect

\* the reply to 'modbus-disconnect' arrives
DisconnectReturn(c) ==
    /\ uiops[c].kind = "disconnect"
    /\ IF IpcDisconnectAwaits
       THEN /\ calls[c].pc = "done"
            /\ calls' = [calls EXCEPT ![c] = IdleCall]
       ELSE UNCHANGED calls
    /\ connected' = FALSE
    /\ autoRead' = FALSE
    /\ logs' = addLog("Disconnected")
    /\ sending' = FALSE
    /\ uiops' = [uiops EXCEPT ![c] = NoOp]
    /\ UNCHANGED <<client, handles, cfgVars, monitorData, selection>>
    /\ AutoReadEffect

\* the reply to 'modbus-connect' arrives
ConnectReturn(c) ==
    /\ uiops[c].kind = "connect" /\ calls[c].pc = "done"
    /\ IF calls[c].ok
       THEN /\ connected' = TRUE
            /\ logs' = addLog("Connected")
       ELSE /\ connected' = FALSE
            /\ logs' = addLog("Connection Error")
    /\ sending' = FALSE
    /\ uiops' = [uiops EXCEPT ![c] = NoOp]
    /\ calls' = [calls EXCEPT ![c] = IdleCall]
    /\ UNCHANGED <<client, handles, cfgVars, autoRead, monitorData,
                   selection>>
    /\ AutoReadEffect

\* handleMainAction
handleMainAction ==
    LET fcNum == parseFC(effectiveFc)
        isWrite == IF ~customFcMode THEN fcNum \in {6, 16}
                   ELSE fcNum \notin {1, 2, 3, 4}
    IN  IF isWrite THEN handleWrite ELSE handleRead(FALSE, FALSE)

\* the Exec button (disabled unless connected and not sending), or Enter in
\* the address or count input (never disabled)
MainAction(button) ==
    /\ button => connected /\ ~sending
    /\ handleMainAction
    /\ AutoReadEffect

\* handleCommand(silent)
handleCommand(silent, tick) ==
    LET fcNum == parseFC(effectiveFc)
    IN  IF fcNum \in {1, 2, 3, 4} THEN handleRead(silent, tick)
        ELSE IF ~silent THEN Throws("Auto-read skip", FALSE)
        ELSE Returns

\* Enter in the custom function input (shown in custom mode)
EnterCustomFc ==
    /\ customFcMode
    /\ handleCommand(FALSE, FALSE)
    /\ AutoReadEffect

\* the interval callback without its test
TickAlwaysEligible(fcNum) == TRUE

\* the test of the interval callback before it calls handleCommand
TickEligible(fcNum) == JsGe(fcNum, 1) /\ fcNum <= 4

\* handleCommand(true) in the interval callback
TickIsSilent == TRUE

\* the argument the interval callback gives handleCommand
TickSilent == FALSE

\* the interval callback runs
Tick ==
    /\ interval
    /\ IF TickEligible(parseFC(effectiveFc))
       THEN handleCommand(TickSilent, TRUE)
       ELSE Returns
    /\ AutoReadEffect

\* the Auto / Stop button: shown unless a standard write code is selected,
\* disabled unless connected
ToggleAuto ==
    /\ ~(~customFcMode /\ parseFC(effectiveFc) \in {6, 16})
    /\ connected
    /\ autoRead' = ~autoRead
    /\ logs' = <<>>
    /\ UNCHANGED <<engineVars, cfgVars, connected, sending, monitorData,
                   selection, uiops>>
    /\ AutoReadEffect

\* scanPorts: the first port found fills an empty serial port setting
scanPorts ==
    /\ settings' = IF Len(PortList) > 0 /\ settings.serialPort = ""
                   THEN [settings EXCEPT !.serialPort = PortList[1]]
                   ELSE settings
    /\ logs' = <<>>
    /\ UNCHANGED <<engineVars, standardFc, customFcValue, customFcMode, address,
                   addrFormat, dataFormat, countParam, gridVars, loggerVars,
                   connected,
                   sending, autoRead,
                   monitorData, selection, uiops>>
    /\ AutoReadEffect

\* the form inputs
EditForm ==
    /\ \/ /\ ~customFcMode
          /\ \E v \in StandardFcTexts : standardFc' = v
          /\ UNCHANGED <<customFcValue, customFcMode, address, countParam>>
       \/ /\ customFcMode
          /\ \E v \in CustomFcTexts : customFcValue' = v
          /\ UNCHANGED <<standardFc, customFcMode, address, countParam>>
       \/ /\ customFcMode' = ~customFcMode
          /\ UNCHANGED <<standardFc, customFcValue, address, countParam>>
       \/ /\ \E v \in AddressTexts : address' = v
          /\ UNCHANGED <<standardFc, customFcValue, customFcMode, countParam>>
       \/ /\ \E v \in CountTexts : countParam' = v
          /\ UNCHANGED <<standardFc, customFcValue, customFcMode, address>>
    /\ logs' = <<>>
    /\ UNCHANGED <<engineVars, settings, addrFormat, dataFormat, gridVars,
                   loggerVars,
                   connected, sending, autoRead,
                   monitorData, selection, uiops>>
    /\ AutoReadEffect

\* /^[0-9A-Fa-f]+$/.test(s)
HexDigitsOnly(s) ==
    Len(s) > 0 /\ \A i \in 1..Len(s) : DigitVal(s[i], 16) >= 0

\* the updater handleCellEdit gives setMonitorData: the snapshot after the
\* edit of the cell at addr with the text newVal, in display format fmt
\* the edit without the isNaN test
handleCellEditStoresNaN(prevData, fmt, addr, newVal) ==
    LET s == Trim(newVal)
        num == IF StartsWith0x(s) THEN ParseInt(s, 16)
               ELSE IF fmt = "HEX" /\ HexDigitsOnly(s) THEN ParseInt(s, 16)
               ELSE ParseInt(s, 10)
        index == addr - prevData.startAddr
    IN  IF ~prevData.present THEN prevData
        ELSE IF index >= 0 /\ index < Len(prevData.values)
        THEN [prevData EXCEPT !.values[index + 1] = num]
        ELSE prevData

\* the edit without the branch for the HEX display format
handleCellEditPrefixOnly(prevData, fmt, addr, newVal) ==
    LET s == Trim(newVal)
        num == IF StartsWith0x(s) THEN ParseInt(s, 16) ELSE ParseInt(s, 10)
        index == addr - prevData.startAddr
    IN  IF ~prevData.present THEN prevData
        ELSE IF num # NaN /\ index >= 0 /\ index < Len(prevData.values)
        THEN [prevData EXCEPT !.values[index + 1] = num]
        ELSE prevData

handleCellEdit(prevData, fmt, addr, newVal) ==
    LET s == Trim(newVal)
        num == IF StartsWith0x(s) THEN ParseInt(s, 16)
               ELSE IF fmt = "HEX" /\ HexDigitsOnly(s) THEN ParseInt(s, 16)
               ELSE ParseInt(s, 10)
        index == addr - prevData.startAddr
    IN  IF ~prevData.present THEN prevData
        ELSE IF num # NaN /\ index >= 0 /\ index < Len(prevData.values)
        THEN [prevData EXCEPT !.values[index + 1] = num]
        ELSE prevData

\* a register cell loses the focus: RegisterBlock.handleBlur calls onEdit
EditCell(addr, newVal) ==
    /\ monitorData' = handleCellEdit(monitorData, dataFormat, addr, newVal)
    /\ logs' = <<>>
    /\ UNCHANGED <<engineVars, cfgVars, connected, sending, autoRead,
                   selection, uiops>>
    /\ AutoReadEffect

\* handleSelectionStart: mouse down on the cell with index idx
SelectCell(idx) ==
    /\ monitorData.present /\ idx < Len(monitorData.values)
    /\ selection' = [present |-> TRUE, start |-> idx, end |-> idx]
    /\ logs' = <<>>
    /\ UNCHANGED <<engineVars, cfgVars, connected, sending, autoRead,
                   monitorData, uiops>>
    /\ AutoReadEffect

\* ------------------------------------------------------ ModbusLogger
SubscriberIds == 1..MaxSubscribers

\* a removal by splice(indexOf(cb), 1): index -1 removes the last entry
spliceIndexOf(list, cb) ==
    IF \E i \in 1..Len(list) : list[i] = cb
    THEN LET i == CHOOSE j \in 1..Len(list) :
                     list[j] = cb /\ \A m \in 1..(j - 1) : list[m] # cb
         IN  SubSeq(list, 1, i - 1) \o SubSeq(list, i + 1, Len(list))
    ELSE SubSeq(list, 1, Len(list) - 1)

\* this.subscribers.filter((c) => c !== cb)
filterOut(list, cb) == SelectSeq(list, LAMBDA c : c # cb)

\* a loop that reads the length of the array before every call
forEachLiveLength(d) == Len(d.arr)

\* Array.prototype.forEach: the number of elements it visits is the length
\* the array had before the first call
forEachLength(d) == d.len

\* subscribe(cb): push onto the array object; the running forEach sees the
\* push when it walks that same object
subscribe(cb) ==
    /\ Len(subscribers) < MaxListLen
    /\ subscribers' = Append(subscribers, cb)
    /\ delivery' = IF delivery.active /\ delivery.same
                   THEN [delivery EXCEPT !.arr = Append(delivery.arr, cb)]
                   ELSE delivery

\* unsubscribe(cb): a new array replaces this.subscribers
unsubscribe(cb) ==
    /\ subscribers' = filterOut(subscribers, cb)
    /\ delivery' = IF delivery.active THEN [delivery EXCEPT !.same = FALSE]
                   ELSE delivery

\* what is left unchanged by the logger
LoggerFrame ==
    UNCHANGED <<engineVars, settings, standardFc, customFcValue, customFcMode,
                address, addrFormat, dataFormat, countParam, gridVars,
                connected, sending, autoRead, monitorData, selection, logs,
                uiops, interval>>

\* logger.subscribe(cb) called between two tasks
Subscribe(cb) == ~delivery.active /\ subscribe(cb) /\ LoggerFrame

\* logger.unsubscribe(cb) called between two tasks
Unsubscribe(cb) == ~delivery.active /\ unsubscribe(cb) /\ LoggerFrame

\* pushTxRx(tx, rx) is called: the entry is built and forEach starts
PushBegin ==
    /\ ~delivery.active /\ delivery.entry < MaxEntries
    /\ delivery' = [active |-> TRUE, entry |-> delivery.entry + 1,
                    arr |-> subscribers, same |-> TRUE,
                    len |-> Len(subscribers), k |-> 0,
                    start |-> subscribers, got |-> <<>>]
    /\ UNCHANGED subscribers
    /\ LoggerFrame

\* forEach calls the next callback with the entry; the callback returns, or
\* subscribes or unsubscribes a callback before it returns
CallNext ==
    /\ delivery.active /\ delivery.k < forEachLength(delivery)
    /\ LET cb == delivery.arr[delivery.k + 1]
           called == [delivery EXCEPT !.k = @ + 1, !.got = Append(@, cb)]
       IN  \/ delivery' = called /\ UNCHANGED subscribers
           \/ \E g \in SubscriberIds :
                 /\ Len(subscribers) < MaxListLen
                 /\ subscribers' = Append(subscribers, g)
                 /\ delivery' = IF called.same
                                THEN [called EXCEPT !.arr = Append(@, g)]
                                ELSE called
           \/ \E g \in SubscriberIds :
                 /\ subscribers' = filterOut(subscribers, g)
                 /\ delivery' = [called EXCEPT !.same = FALSE]
    /\ LoggerFrame

\* forEach has visited its elements; pushTxRx returns
PushEnd ==
    /\ delivery.active /\ delivery.k >= forEachLength(delivery)
    /\ delivery' = [delivery EXCEPT !.active = FALSE]
    /\ UNCHANGED subscribers
    /\ LoggerFrame

\* the sign change starting one value late
formatValueSignedAbove32768(value, nextValue, format) ==
    CASE format = "HEX" ->
            <<"0", "x">> \o PadStart(ToUpperCase(NumberToString(value, 16)), 4)
      [] format = "DEC_S" ->
            NumberToString(IF value > 32768 THEN value - 65536 ELSE value, 10)
      [] OTHER -> NumberToString(value, 10)

\* formatValue(value, nextValue, format) for the editable formats HEX and
\* DEC_S and the default DEC_U (FLOAT, UINT32 and ASCII cells are read-only)
formatValue(value, nextValue, format) ==
    CASE format = "HEX" ->
            <<"0", "x">> \o PadStart(ToUpperCase(NumberToString(value, 16)), 4)
      [] format = "DEC_S" ->
            NumberToString(IF value > 32767 THEN value - 65536 ELSE value, 10)
      [] OTHER -> NumberToString(value, 10)

\* RegisterBlock.handleFocus of the cell at index idx: the cell starts
\* editing with the text of its value
FocusCell(idx) ==
    /\ monitorData.present /\ idx < Len(monitorData.values)
    /\ ~editing.active
    /\ LET value == monitorData.values[idx + 1]
       IN  editing' =
              [active |-> TRUE, address |-> monitorData.startAddr + idx,
               text |-> IF dataFormat = "HEX"
                        THEN <<"0", "x">> \o
                             PadStart(ToUpperCase(NumberToString(value, 16)), 4)
                        ELSE NumberToString(value, 10)]
    /\ logs' = <<>>
    /\ UNCHANGED <<engineVars, settings, standardFc, customFcValue,
                   customFcMode, address, addrFormat, dataFormat, countParam,
                   loggerVars,
                   clipboard, connected, sending, autoRead, monitorData,
                   selection, uiops>>
    /\ AutoReadEffect

\* RegisterBlock.handleChange: the user replaces the text of the cell being
\* edited
TypeCell(text) ==
    /\ editing.active
    /\ editing' = [editing EXCEPT !.text = text]
    /\ logs' = <<>>
    /\ UNCHANGED <<engineVars, settings, standardFc, customFcValue,
                   customFcMode, address, addrFormat, dataFormat, countParam,
                   loggerVars,
                   clipboard, connected, sending, autoRead, monitorData,
                   selection, uiops>>
    /\ AutoReadEffect

\* the text the grid shows for the cell being edited
DisplayedText ==
    formatValue(monitorData.values[editing.address - monitorData.startAddr + 1],
                Undefined, dataFormat)

\* the user types the text the cell shows into the cell being edited
RetypeDisplayed ==
    /\ editing.active
    /\ TypeCell(DisplayedText)

\* RegisterBlock.handleBlur: onEdit(address, editingVal)
BlurCell ==
    /\ editing.active
    /\ monitorData' = handleCellEdit(monitorData, dataFormat, editing.address,
                                     editing.text)
    /\ editing' = NoEdit
    /\ logs' = <<>>
    /\ UNCHANGED <<engineVars, settings, standardFc, customFcValue,
                   customFcMode, address, addrFormat, dataFormat, countParam,
                   loggerVars,
                   clipboard, connected, sending, autoRead, selection, uiops>>
    /\ AutoReadEffect

\* the rows the copy shortcut formats from the selected range
CopyRows ==
    LET start == IF selection.start < selection.end
                 THEN selection.start ELSE selection.end
        end == IF selection.start < selection.end
               THEN selection.end ELSE selection.start
    IN  [k \in 1..(end - start + 1) |->
            formatValue(JsIndex(monitorData.values, start + k - 1),
                        JsIndex(monitorData.values, start + k), dataFormat)]

\* Ctrl+C outside an input: the selected values, formatted, go to the
\* clipboard (rows joined by tabs) unless the clipboard write is refused
CopySelection ==
    /\ selection.present /\ monitorData.present
    /\ ~editing.active
    /\ \/ clipboard' = CopyRows /\ logs' = addLog("Copied")
       \/ UNCHANGED clipboard /\ logs' = <<>>
    /\ UNCHANGED <<engineVars, settings, standardFc, customFcValue,
                   customFcMode, address, addrFormat, dataFormat, countParam,
                   loggerVars,
                   editing, connected, sending, autoRead, monitorData,
                   selection, uiops>>
    /\ AutoReadEffect

\* ------------------------------------------------------ specifications
Init ==
    /\ client = 0
    /\ handles = [h \in Handles |-> FreeHandle]
    /\ calls = [c \in Slots |-> IdleCall]
    /\ settings = DEFAULT_SETTINGS
    /\ connected = FALSE
    /\ sending = FALSE
    /\ autoRead = FALSE
    /\ standardFc = <<"3">>
    /\ customFcValue = <<>>
    /\ customFcMode = FALSE
    /\ address = <<"0">>
    /\ addrFormat = "DEC"
    /\ dataFormat = "DEC_U"
    /\ countParam = <<"1">>
    /\ monitorData = NoMonitor
    /\ selection = NoSelection
    /\ logs = <<>>
    /\ uiops = [c \in Slots |-> NoOp]
    /\ interval = FALSE
    /\ clipboard = <<>>
    /\ editing = NoEdit
    /\ subscribers = <<>>
    /\ delivery = NoDelivery

\* the transport and the device act: a close callback, an open result, a
\* transaction result, a dropped link
TransportStep ==
    /\ \/ \E c \in Slots : ConnectOpenDone(c, TRUE, "")
       \/ \E c \in Slots, e \in OpenErrors : ConnectOpenDone(c, FALSE, e)
       \/ \E c \in Slots : DisconnectCloseDone(c)
       \/ \E c \in Slots :
             /\ calls[c].op = "read" /\ calls[c].pc = "xfer"
             /\ \E d \in TransportData(calls[c].fc, calls[c].count) :
                   ReadDone(c, TRUE, d, "")
       \/ \E c \in Slots, e \in TransportErrors : ReadDone(c, FALSE, <<>>, e)
       \/ \E c \in Slots : WriteDone(c, TRUE, "")
       \/ \E c \in Slots, e \in TransportErrors : WriteDone(c, FALSE, e)
       \/ \E h \in Handles : LinkDrop(h)
    /\ logs' = <<>>
    /\ UNCHANGED <<cfgVars, connected, sending, autoRead, monitorData,
                   selection, uiops, interval>>

\* the renderer drives the engine over IPC
UINext ==
    \/ ClickConnect
    \/ \E c \in Slots : ConnectReturn(c)
    \/ \E c \in Slots : DisconnectReturn(c)
    \/ \E b \in BOOLEAN : MainAction(b)
    \/ EnterCustomFc
    \/ Tick
    \/ ToggleAuto
    \/ scanPorts
    \/ EditForm
    \/ \E c \in Slots : ReadReturn(c)
    \/ \E c \in Slots : WriteReturn(c)
    \/ \E c \in Slots : RefreshReturn(c)
    \/ TransportStep

UISpec == Init /\ [][UINext]_vars

\* ------------------------------------------- the engine called directly
\* what a caller of the engine may pass in this model
ConnectOptions ==
    {[DEFAULT_SETTINGS EXCEPT !.mode = m, !.ipAddress = ip, !.serialPort = sp,
                              !.timeout = t]
        : m \in {"TCP", "RTU"}, ip \in {"", "127.0.0.1"},
          sp \in {"", "COM3"}, t \in {0, 1000}}
ReadCodes == {1, 2, 3, 4, 7}
WriteCodes == {5, 6, 15, 16, 65}
Addresses == {0, 1, 65535}
Counts == {1, 2}
WriteValues ==
    {Scalar(1), List(<<1, 2>>), List([i \in 1..127 |-> 1]), List([i \in 1..128 |-> 1])}

\* every earlier call was awaited: no promise of the engine is pending
AllSettled == \A c \in Slots : SlotFree(c)

\* await client.connect(options)
AwaitedConnect(o) ==
    /\ AllSettled
    /\ ConnectBegin(1, o)
    /\ UNCHANGED uiVars

\* await client.disconnect()
AwaitedDisconnect ==
    /\ AllSettled
    /\ DisconnectBegin(1, FALSE)
    /\ UNCHANGED uiVars

\* await client.read(params)
AwaitedRead(fc, addr, count) ==
    /\ AllSettled
    /\ ReadBegin(1, fc, addr, count)
    /\ UNCHANGED uiVars

\* await client.write(params)
AwaitedWrite(fc, addr, values) ==
    /\ AllSettled
    /\ WriteBegin(1, fc, addr, values)
    /\ UNCHANGED uiVars

\* the close callback of connect's old handle
OldHandleClosed ==
    /\ \E c \in Slots : ConnectCloseDone(c)
    /\ UNCHANGED uiVars

EngineNext ==
    \/ \E o \in ConnectOptions : AwaitedConnect(o)
    \/ AwaitedDisconnect
    \/ \E fc \in ReadCodes, a \in Addresses, n \in Counts : AwaitedRead(fc, a, n)
    \/ \E fc \in WriteCodes, a \in Addresses, v \in WriteValues :
          AwaitedWrite(fc, a, v)
    \/ OldHandleClosed
    \/ TransportStep

EngineSpec == Init /\ [][EngineNext]_vars

\* client.connect(options) called without waiting for the calls in progress:
\* the engine keeps no queue, a second connect starts at once
OverlappingConnect(o) ==
    /\ \E c \in Slots : ConnectBegin(c, o)
    /\ UNCHANGED uiVars

\* one endpoint that is given and one that is missing
OverlapOptions ==
    {o \in ConnectOptions : o.mode = "TCP" /\ o.serialPort = "" /\ o.timeout = 1000}

OverlapNext ==
    \/ \E o \in OverlapOptions : OverlappingConnect(o)
    \/ OldHandleClosed
    \/ TransportStep

OverlapSpec == Init /\ [][OverlapNext]_vars

\* the custom write codec on a connected engine: write() with a custom code,
\* addresses around the ends of the address space and register values
\* around the ends of the signed and unsigned 16-bit ranges
CodecAddresses == {-1, 0, 16, 255, 256, 65535, 65536}

CodecValues ==
    {<<>>, <<1, 2, 3>>, <<-1>>, <<-32768, 65535>>, <<32767, 32768>>,
     <<256, 255>>, [i \in 1..127 |-> 1]}

CodecInit ==
    /\ client = 1
    /\ handles = [h \in Handles |->
                     IF h = 1 THEN [FreeHandle EXCEPT !.st = "open",
                                      !.timeout = 1000, !.id = 1]
                     ELSE FreeHandle]
    /\ calls = [c \in Slots |-> IdleCall]
    /\ settings = DEFAULT_SETTINGS
    /\ connected = FALSE
    /\ sending = FALSE
    /\ autoRead = FALSE
    /\ standardFc = <<"3">>
    /\ customFcValue = <<>>
    /\ customFcMode = FALSE
    /\ address = <<"0">>
    /\ addrFormat = "DEC"
    /\ dataFormat = "DEC_U"
    /\ countParam = <<"1">>
    /\ monitorData = NoMonitor
    /\ selection = NoSelection
    /\ logs = <<>>
    /\ uiops = [c \in Slots |-> NoOp]
    /\ interval = FALSE
    /\ clipboard = <<>>
    /\ editing = NoEdit
    /\ subscribers = <<>>
    /\ delivery = NoDelivery

CodecNext ==
    \/ \E a \in CodecAddresses, vs \in CodecValues : AwaitedWrite(65, a, List(vs))
    \/ TransportStep

CodecSpec == CodecInit /\ [][CodecNext]_vars

\* the logger on its own: callbacks subscribe and unsubscribe, between
\* publishes and from inside a callback that is being called
LoggerNext ==
    \/ \E cb \in SubscriberIds : Subscribe(cb)
    \/ \E cb \in SubscriberIds : Unsubscribe(cb)
    \/ PushBegin
    \/ CallNext
    \/ PushEnd

LoggerSpec == Init /\ [][LoggerNext]_vars

\* the register grid over a snapshot of one register, for every 16-bit
\* register value, in the decimal formats
RegisterValues == 0..65535

GridFormats == {"HEX", "DEC_U", "DEC_S"}

FormatInit ==
    /\ client = 0
    /\ handles = [h \in Handles |-> FreeHandle]
    /\ calls = [c \in Slots |-> IdleCall]
    /\ settings = DEFAULT_SETTINGS
    /\ connected = FALSE
    /\ sending = FALSE
    /\ autoRead = FALSE
    /\ standardFc = <<"3">>
    /\ customFcValue = <<>>
    /\ customFcMode = FALSE
    /\ address = <<"0">>
    /\ addrFormat = "DEC"
    /\ dataFormat \in GridFormats
    /\ countParam = <<"1">>
    /\ \E v \in RegisterValues :
          monitorData = [present |-> TRUE, startAddr |-> 0, values |-> <<v>>]
    /\ selection = [present |-> TRUE, start |-> 0, end |-> 0]
    /\ logs = <<>>
    /\ uiops = [c \in Slots |-> NoOp]
    /\ interval = FALSE
    /\ clipboard = <<>>
    /\ editing = NoEdit
    /\ subscribers = <<>>
    /\ delivery = NoDelivery

FormatNext ==
    \/ FocusCell(0)
    \/ RetypeDisplayed
    \/ BlurCell
    \/ CopySelection

FormatSpec == FormatInit /\ [][FormatNext]_vars

\* ------------------------------------- the monitor of a connected session
\* what the form holds and what the user types into a cell in this model
MonitorFcTexts == {<<"1">>, <<"3">>, <<"6">>, <<"1", "6">>}
MonitorAddressTexts == {<<"0">>, <<"1">>, <<"z">>}
MonitorCountTexts == {<<"1">>, <<"2">>}
DataFormats == {"DEC_U", "HEX"}
CellTexts == {<<"0", "x", "1", "F">>, <<"1", "F">>, <<"-", "5">>, <<"z", "z">>}
CellAddresses == {0, 1, 2}

\* the snapshots a session may hold when the user turns to the grid
Snapshots ==
    {NoMonitor} \cup
    {[present |-> TRUE, startAddr |-> 0, values |-> v] : v \in {<<0>>, <<0, 1>>}}

\* a session that is connected and idle: the handle is open, no command is
\* in flight, the form and the grid hold what earlier commands left
MonitorInit ==
    /\ client = 1
    /\ handles = [h \in Handles |->
                     IF h = 1 THEN [FreeHandle EXCEPT !.st = "open",
                                      !.timeout = 1000, !.id = 1]
                     ELSE FreeHandle]
    /\ calls = [c \in Slots |-> IdleCall]
    /\ settings = [DEFAULT_SETTINGS EXCEPT !.serialPort = PortList[1]]
    /\ connected = TRUE
    /\ sending = FALSE
    /\ autoRead = FALSE
    /\ standardFc \in MonitorFcTexts
    /\ customFcValue = <<>>
    /\ customFcMode = FALSE
    /\ address \in MonitorAddressTexts
    /\ addrFormat = "DEC"
    /\ dataFormat \in DataFormats
    /\ countParam \in MonitorCountTexts
    /\ monitorData \in Snapshots
    /\ selection = NoSelection
    /\ logs = <<>>
    /\ uiops = [c \in Slots |-> NoOp]
    /\ interval = FALSE
    /\ clipboard = <<>>
    /\ editing = NoEdit
    /\ subscribers = <<>>
    /\ delivery = NoDelivery

MonitorNext ==
    \/ \E b \in BOOLEAN : MainAction(b)
    \/ \E c \in Slots : ReadReturn(c)
    \/ \E c \in Slots : WriteReturn(c)
    \/ \E c \in Slots : RefreshReturn(c)
    \/ \E a \in CellAddresses, t \in CellTexts : EditCell(a, t)
    \/ \E i \in 0..1 : SelectCell(i)
    \/ TransportStep

MonitorSpec == MonitorInit /\ [][MonitorNext]_vars

\* -------------------------------------------------------- properties
Settled(c, op) == calls[c].op = op /\ calls[c].pc = "done"

LiveHandles == {h \in Handles : handles[h].st \in {"opening", "open", "closing"}}

\* C1: a connect call that fails, for a missing required field or because
\* the transport does not open, rejects with 'Connection failed: <cause>'
\* and leaves the handle slot empty and no handle open, whether the engine
\* held an open handle before the call or not.
C1_FailedConnectWrapsAndDisconnects ==
    \A c \in Slots :
        Settled(c, "connect") /\ ~calls[c].ok =>
            /\ calls[c].err[1] = "Connection failed: "
            /\ calls[c].err[2] \in
                  (IF calls[c].opts.mode = "TCP" /\ calls[c].opts.ipAddress = ""
                   THEN {"TCP mode requires ipAddress"}
                   ELSE IF calls[c].opts.mode = "RTU" /\ calls[c].opts.serialPort = ""
                   THEN {"RTU mode requires serialPort"}
                   ELSE OpenErrors)
            /\ client = 0
            /\ \A h \in Handles : handles[h].st # "open"

C1_Witness ==
    \E c \in Slots :
        /\ Settled(c, "connect") /\ ~calls[c].ok
        /\ calls[c].preClient # 0 /\ calls[c].preOpen
        /\ calls[c].err[2] \in OpenErrors

\* C2: with every connect and disconnect awaited before the next call, at
\* most one transport handle is live (opening, open or closing) in every
\* state, so the old handle has finished closing before the new one starts
\* to open, and the handle slot is empty or holds a handle whose open
\* succeeded.
C2_OneLiveHandle ==
    /\ Cardinality(LiveHandles) <= 1
    /\ client # 0 => handles[client].st \in {"open", "closed"}
    /\ \A c \in Slots :
          calls[c].op = "connect" /\ calls[c].pc = "open" =>
              /\ client = 0
              /\ calls[c].preClient # 0 => ~IsOpen(calls[c].preClient)

C2_Witness ==
    \E c \in Slots :
        /\ calls[c].op = "connect" /\ calls[c].pc = "open"
        /\ calls[c].preClient # 0 /\ calls[c].preOpen

\* C3: a disconnect always succeeds and leaves the handle slot empty; on an
\* engine without an open handle it issues no transport call (so a second
\* disconnect is a no-op), on a connected engine it issues exactly one
\* close, of the handle held, and that handle is no longer open.
C3_Disconnect ==
    \A c \in Slots :
        Settled(c, "disconnect") =>
            /\ calls[c].ok
            /\ client = 0
            /\ ~calls[c].preOpen => calls[c].tcalls = <<>>
            /\ calls[c].preOpen =>
                  /\ calls[c].tcalls = <<TCall("close", calls[c].preClient, 0, 0)>>
                  /\ ~IsOpen(calls[c].preClient)

C3_Witness ==
    \E c \in Slots : Settled(c, "disconnect") /\ calls[c].preOpen

\* C4: a read with function code 1, 2, 3 or 4 that starts while the engine
\* has no open handle (empty slot, or a handle whose link is down) fails
\* with the NotConnected error and issues no transport call.
C4_ReadNotConnected ==
    \A c \in Slots :
        /\ calls[c].op = "read" /\ calls[c].pc # "idle"
        /\ calls[c].fc \in {1, 2, 3, 4}
        /\ ~calls[c].preOpen
        => /\ calls[c].pc = "done" /\ ~calls[c].ok
           /\ calls[c].err = <<"Modbus client is not connected.", "">>
           /\ calls[c].tcalls = <<>>

C4_Witness ==
    \E c \in Slots :
        /\ Settled(c, "read") /\ calls[c].fc \in {1, 2, 3, 4}
        /\ calls[c].preClient # 0 /\ ~calls[c].preOpen

\* C5: on a connected engine a read with code 1, 2, 3 or 4 issues exactly
\* one transport read, of coils, discrete inputs, holding registers or input
\* registers respectively, with the caller's address and count, and a
\* successful one returns count values of the transport's type; any other
\* code fails as unsupported and issues no transport call.
C5_ReadDispatch ==
    \A c \in Slots :
        Settled(c, "read") /\ calls[c].preOpen =>
            LET r == calls[c]
                kind == <<"readCoils", "readDiscreteInputs",
                          "readHoldingRegisters", "readInputRegisters">>
            IN  IF r.fc \in {1, 2, 3, 4}
                THEN /\ r.tcalls = <<<<kind[r.fc], r.preClient, r.address, r.count>>>>
                     /\ r.ok => /\ Len(r.data) = r.count
                                /\ \A i \in 1..Len(r.data) :
                                      r.data[i].t = IF r.fc \in {1, 2} THEN "boolean"
                                                    ELSE "number"
                ELSE /\ ~r.ok
                     /\ r.err = <<"Unsupported read function code: ", ToString(r.fc)>>
                     /\ r.tcalls = <<>>

C5_Witness ==
    \E c \in Slots :
        Settled(c, "read") /\ calls[c].preOpen /\ calls[c].ok /\ calls[c].fc = 2

\* the reads started by poll ticks whose handler still waits for the reply
TickReads == {c \in Slots : uiops[c].kind = "read" /\ uiops[c].tick}

\* this step starts a tick's read
NewTickRead == \E c \in Slots : c \in TickReads' /\ c \notin TickReads

\* the engine operations that are unresolved
Outstanding == {c \in Slots : calls[c].pc \notin {"idle", "done"}}

\* C6: at any moment at most one engine operation issued through the UI
\* (connect, disconnect, read, write, refresh read) is unresolved.
C6_OneOutstanding == Cardinality(Outstanding) <= 1

\* C7: the poll loop never starts a tick's read while the read of an earlier
\* tick is unresolved, however long the transaction takes: at most one
\* tick read is in flight in every state.
C7_OneTickRead == Cardinality(TickReads) <= 1

C7_Witness ==
    \E c \in TickReads : calls[c].pc = "xfer" /\ autoRead /\ connected

\* C8: when the read issued by a poll tick fails with a transaction error,
\* the handling of that failure leaves auto-poll disengaged: auto-read is
\* off and no timer is armed.
C8_FailedTickDisengages ==
    [][\A c \in TickReads :
          /\ calls[c].pc = "done" /\ ~calls[c].ok
          /\ calls[c].err[1] \in TransportErrors
          /\ uiops'[c].kind = "none"
          => ~autoRead' /\ ~interval']_vars

\* C9: a tick starts a read only while auto-read is on, so none starts once
\* the loop is stopped; the step that stops the loop leaves a tick's read in
\* flight untouched, and its reply is handled as any other: a successful
\* one installs the snapshot, a failed one is logged.
C9_StopKeepsInFlightRead ==
    [][/\ NewTickRead => autoRead /\ interval
       /\ ~autoRead' => ~interval'
       /\ autoRead /\ ~autoRead' =>
             \A c \in TickReads : uiops'[c] = uiops[c] /\ calls'[c] = calls[c]
       /\ \A c \in TickReads :
             calls[c].pc = "done" /\ uiops'[c].kind = "none" =>
                 IF calls[c].ok
                 THEN monitorData' =
                        [present |-> TRUE, startAddr |-> uiops[c].address,
                         values |-> [i \in 1..Len(calls[c].data) |->
                                        calls[c].data[i].n]]
                 ELSE monitorData' = monitorData /\ logs' = <<"Read Error">>
      ]_vars

C9_Witness == ~autoRead /\ \E c \in TickReads : calls[c].pc = "xfer"

\* C10: a poll tick starts a read only when the session is connected and
\* the active function code is 1, 2, 3 or 4; a tick that runs with any other
\* active code starts no engine operation and adds no log line.
C10_TickEligibility ==
    [][/\ NewTickRead =>
             connected /\ parseFC(effectiveFc) \in {1, 2, 3, 4}
       /\ Tick /\ ~(connected /\ parseFC(effectiveFc) \in {1, 2, 3, 4}) =>
             /\ UNCHANGED <<engineVars, uiops>>
             /\ logs' = <<>>
      ]_vars

C10_Witness ==
    interval /\ connected /\ parseFC(effectiveFc) \notin {1, 2, 3, 4}

\* C11: on a connected engine a write with code 5, 6, 15 or 16 issues
\* exactly one transport write, of a coil, a register, coils or registers
\* respectively, with the caller's address; when the transport rejects it
\* (a timeout included) the call fails with the transport's error, and
\* otherwise it succeeds.
C11_WriteDispatch ==
    \A c \in Slots :
        Settled(c, "write") /\ calls[c].preOpen /\ calls[c].fc \in {5, 6, 15, 16} =>
            LET w == calls[c]
                kind == [f \in {5, 6, 15, 16} |->
                            CASE f = 5 -> "writeCoil" [] f = 6 -> "writeRegister"
                              [] f = 15 -> "writeCoils" [] OTHER -> "writeRegisters"]
            IN  /\ w.tcalls = <<<<kind[w.fc], w.preClient, w.address,
                                  Len(w.values.list)>>>>
                /\ w.rejected => ~w.ok /\ w.err[1] \in TransportErrors
                /\ ~w.rejected => w.ok

C11_Witness ==
    \E c \in Slots :
        /\ Settled(c, "write") /\ calls[c].preOpen /\ calls[c].fc = 16
        /\ calls[c].rejected /\ ~calls[c].ok

\* a custom write whose frame createCustomWritePayload can build
CustomFrameBuilt(w) ==
    /\ w.op = "write" /\ w.fc \notin {5, 6, 15, 16}
    /\ ~w.values.scalar /\ Len(w.values.list) <= 127
    /\ w.address \in 0..65535

\* C12: on a connected engine a write with a code outside {5, 6, 15, 16}
\* sends its frame through writeCustomFC exactly once; when the transport
\* rejects the frame the call still succeeds and the rejection is only
\* warned about: no exception is raised for it.
C12_CustomRejectionOnlyWarned ==
    \A c \in Slots :
        Settled(c, "write") /\ calls[c].preOpen /\ CustomFrameBuilt(calls[c]) =>
            /\ calls[c].tcalls = <<<<"writeCustomFC", calls[c].preClient,
                                    calls[c].address, Len(calls[c].values.list)>>>>
            /\ calls[c].ok
            /\ ~calls[c].thrown

\* C13: a custom write with a valid address and a list of 128 or more
\* registers (more than 255 data bytes) fails with the data length error,
\* which reaches the caller, and nothing is transmitted; with a list of 127
\* or fewer registers the frame is built and transmitted once.
C13_PayloadTooLarge ==
    \A c \in Slots :
        /\ Settled(c, "write") /\ calls[c].preOpen
        /\ calls[c].fc \notin {5, 6, 15, 16}
        /\ ~calls[c].values.scalar /\ calls[c].address \in 0..65535
        => IF Len(calls[c].values.list) >= 128
           THEN /\ ~calls[c].ok
                /\ calls[c].err = <<"Data length exceeds", "">>
                /\ calls[c].tcalls = <<>>
           ELSE calls[c].tcalls = <<<<"writeCustomFC", calls[c].preClient,
                                      calls[c].address, Len(calls[c].values.list)>>>>

C13_Witness ==
    \E c \in Slots :
        /\ Settled(c, "write") /\ calls[c].preOpen /\ calls[c].fc = 65
        /\ Len(calls[c].values.list) = 128 /\ ~calls[c].ok

\* C14: when a read or write call on a connected engine settles, as a
\* success or as a failure, it has published the transport's last tx/rx
\* buffers to the logger exactly once if the transport holds a tx or an rx
\* buffer, and not at all if it holds neither.
C14_TrafficPublishedOnce ==
    [][\A c \in Slots :
          /\ calls'[c].op \in {"read", "write"} /\ calls'[c].pc = "done"
          /\ calls'[c] # calls[c]
          /\ calls'[c].preOpen
          => LET h == calls'[c].preClient
             IN  calls'[c].pub =
                    IF handles'[h].tx \/ handles'[h].rx THEN 1 ELSE 0]_vars

C14_Witness ==
    \E c \in Slots :
        /\ Settled(c, "read") /\ calls[c].preOpen
        /\ calls[c].rejected /\ calls[c].pub = 1

\* this step starts the write of handleWrite in slot c
NewWrite(c) == uiops'[c].kind = "write" /\ uiops[c].kind # "write"

\* the range [start, start + count) lies inside the snapshot
InSnapshot(start, count) ==
    /\ monitorData.present
    /\ start # NaN
    /\ start >= monitorData.startAddr
    /\ start + count <= monitorData.startAddr + Len(monitorData.values)

\* C15: a write command whose range [startAddress, startAddress + count) is
\* not entirely inside the current snapshot (or that finds no snapshot)
\* sends no write to the engine and leaves the snapshot as it is: every
\* write that is sent has its whole range inside the snapshot.
C15_WriteRangeInSnapshot ==
    [][\A c \in Slots :
          NewWrite(c) =>
              /\ InSnapshot(uiops'[c].address, uiops'[c].count)
              /\ monitorData' = monitorData]_vars

\* C16: the values a write command sends to the engine are the current
\* snapshot values of the registers startAddress .. startAddress + count - 1,
\* in address order, cell edits included.
C16_WriteSendsSnapshotValues ==
    [][\A c \in Slots :
          NewWrite(c) =>
              LET start == uiops'[c].address
                  count == uiops'[c].count
              IN  /\ InSnapshot(start, count)
                  /\ calls'[c].address = start
                  /\ calls'[c].values.list =
                        [i \in 1..count |->
                            monitorData.values[start - monitorData.startAddr + i]]
      ]_vars

\* this step delivers the reply of the read in slot c to handleRead
ReadSettles(c) == uiops[c].kind = "read" /\ uiops'[c].kind # "read"

\* C17: after a read that succeeds the snapshot is {the start address of the
\* request, the values returned}, booleans becoming 1 and 0 and numbers kept,
\* nothing of the previous snapshot is retained and the selection is cleared.
C17_ReadReplacesSnapshot ==
    [][\A c \in Slots :
          ReadSettles(c) /\ calls[c].ok =>
              LET data == calls[c].data
              IN  /\ monitorData'.present
                  /\ monitorData'.startAddr = uiops[c].address
                  /\ Len(monitorData'.values) = Len(data)
                  /\ \A i \in 1..Len(data) :
                        monitorData'.values[i] =
                            IF data[i] = Bool(TRUE) THEN 1
                            ELSE IF data[i] = Bool(FALSE) THEN 0
                            ELSE data[i].n
                  /\ selection' = NoSelection]_vars

\* a coil read from address 1 answered with a set coil has replaced the
\* snapshot (every initial snapshot starts at 0 and holds no second 1)
C17_Witness ==
    /\ monitorData.present /\ monitorData.startAddr = 1
    /\ monitorData.values = <<1, 0>>
    /\ standardFc = <<"1">>
    /\ selection = NoSelection
    /\ logs = addLog("Read OK")

\* C18: a read that fails (not connected, unsupported code, transport error,
\* invalid address) leaves the snapshot and the selection as they were.
C18_FailedReadKeepsSnapshot ==
    [][logs' = addLog("Read Error") =>
          monitorData' = monitorData /\ selection' = selection]_vars

\* a read has just failed in the engine or transport while a snapshot and a
\* selection exist
C18_Witness ==
    /\ logs = addLog("Read Error")
    /\ monitorData.present /\ selection.present
    /\ address # <<"z">>

\* C19: in every reachable state every value of the snapshot is an unsigned
\* 16-bit integer and the start address of the snapshot is in 0..65535.
C19_SnapshotIsU16 ==
    monitorData.present =>
        /\ monitorData.startAddr \in 0..65535
        /\ \A i \in 1..Len(monitorData.values) :
              monitorData.values[i] \in 0..65535

\* what the cell texts of CellTexts denote: hexadecimal with a 0x prefix, or
\* in the HEX format when all characters are hex digits, else decimal
CellValue(fmt, text) ==
    CASE text = <<"0", "x", "1", "F">> -> 31
      [] text = <<"1", "F">> -> IF fmt = "HEX" THEN 31 ELSE 1
      [] text = <<"-", "5">> -> -5
      [] OTHER -> NaN

\* C20: a cell edit parses its text as hexadecimal when it has a 0x prefix or
\* when the display format is HEX and the text is hex digits only, and as
\* decimal otherwise; when the parse succeeds and the address lies in the
\* snapshot, exactly the register at that address takes the parsed value, and
\* the start address, the length and all other registers stay.
C20_EditCell ==
    [][\A a \in CellAddresses, t \in CellTexts :
          LET v == CellValue(dataFormat, t)
              i == a - monitorData.startAddr + 1
          IN  (monitorData.present /\ v # NaN
                 /\ i \in 1..Len(monitorData.values)
                 /\ UNCHANGED <<engineVars, uiops, selection>>
                 /\ EditCell(a, t)) =>
                  /\ monitorData'.present
                  /\ monitorData'.startAddr = monitorData.startAddr
                  /\ Len(monitorData'.values) = Len(monitorData.values)
                  /\ monitorData'.values[i] = v
                  /\ \A j \in 1..Len(monitorData.values) :
                        j # i => monitorData'.values[j] = monitorData.values[j]
      ]_vars

\* register 1 of a two-register snapshot has been edited to 31 in the HEX
\* format, register 0 kept
C20_Witness ==
    /\ monitorData.present /\ monitorData.startAddr = 0
    /\ monitorData.values = <<0, 31>>
    /\ dataFormat = "HEX"

\* C21: a cell edit whose text is not a number, or whose address is outside
\* [startAddress, startAddress + length), leaves the snapshot unchanged.
C21_FailedEditKeepsSnapshot ==
    [][\A a \in CellAddresses, t \in CellTexts :
          LET i == a - monitorData.startAddr + 1
          IN  ((CellValue(dataFormat, t) = NaN
                  \/ i \notin 1..Len(monitorData.values))
               /\ UNCHANGED <<engineVars, uiops, selection>>
               /\ EditCell(a, t)) => monitorData' = monitorData]_vars

\* a snapshot of the single register 1, edited to 31: the edits of addresses
\* 0 and 2 and the edits with the text zz fail in this state and lead back
\* to it
C21_Witness ==
    /\ monitorData.present /\ monitorData.startAddr = 1
    /\ monitorData.values = <<31>>
    /\ logs = <<>> /\ ~sending

\* this step delivers the successful reply of the auto refresh in slot c
RefreshSettles(c) ==
    uiops[c].kind = "refresh" /\ uiops'[c].kind # "refresh" /\ calls[c].ok

\* the values of a reply as numbers, booleans as 1 and 0
Fresh(c) ==
    [i \in 1..Len(calls[c].data) |->
        IF calls[c].data[i] = Bool(TRUE) THEN 1
        ELSE IF calls[c].data[i] = Bool(FALSE) THEN 0
        ELSE calls[c].data[i].n]

\* the snapshot index (from 1) that refreshed value i of slot c lands on,
\* 0 when it falls outside the snapshot
Landing(c, i) ==
    LET w == uiops[c].address
        j == w - monitorData.startAddr + i
    IN  IF w # NaN /\ j \in 1..Len(monitorData.values) THEN j ELSE 0

\* C22: the reconcile after a write lays the refreshed values over the
\* snapshot at the offsets writeAddress - startAddress + i, leaves every other
\* index as it was, ignores refreshed values that fall outside the snapshot,
\* and never changes the start address or the length of the snapshot.
C22_ReconcileOverlay ==
    [][\A c \in Slots :
          RefreshSettles(c) /\ monitorData.present =>
              /\ monitorData'.present
              /\ monitorData'.startAddr = monitorData.startAddr
              /\ Len(monitorData'.values) = Len(monitorData.values)
              /\ \A i \in 1..Len(Fresh(c)) :
                    Landing(c, i) # 0 =>
                        monitorData'.values[Landing(c, i)] = Fresh(c)[i]
              /\ \A j \in 1..Len(monitorData.values) :
                    (\A i \in 1..Len(Fresh(c)) : Landing(c, i) # j) =>
                        monitorData'.values[j] = monitorData.values[j]]_vars

\* the refresh of a one-register write to address 1 has been answered with a
\* value that differs from the edited snapshot of two registers
C22_Witness ==
    \E c \in Slots :
        /\ uiops[c].kind = "refresh" /\ calls[c].pc = "done" /\ calls[c].ok
        /\ uiops[c].address = 1 /\ uiops[c].count = 1
        /\ monitorData.present /\ monitorData.startAddr = 0
        /\ Len(monitorData.values) = 2
        /\ monitorData.values[2] = 31 /\ Fresh(c) = <<1>>

\* C23: when a write has succeeded and the auto refresh read that follows it
\* fails, the failure is swallowed: no write error is reported to the user
\* and the snapshot is left unchanged.
C23_RefreshFailureSwallowed ==
    [][\A c \in Slots :
          uiops[c].kind = "refresh" /\ uiops'[c].kind # "refresh"
            /\ ~calls[c].ok =>
              /\ logs' # addLog("Write Error")
              /\ monitorData' = monitorData]_vars

\* the title of the log line a failed command of each kind writes
ErrorTitle(kind) ==
    CASE kind \in {"connect", "disconnect"} -> "Connection Error"
      [] kind = "read" -> "Read Error"
      [] OTHER -> "Write Error"

\* this step delivers a rejection to the handler waiting in slot c
FailureSettles(c) ==
    /\ uiops[c].kind # "none" /\ uiops'[c].kind = "none"
    /\ calls[c].pc = "done" /\ ~calls[c].ok

\* the form selects a read and its address text is not a number
InvalidReadForm ==
    LET fcNum == parseFC(effectiveFc)
    IN  /\ IF customFcMode THEN fcNum \in {1, 2, 3, 4} ELSE fcNum \notin {6, 16}
        /\ ParseInt(address, IF addrFormat = "HEX" THEN 16 ELSE 10) = NaN

RequestKinds ==
    {"readCoils", "readDiscreteInputs", "readHoldingRegisters",
     "readInputRegisters", "writeCoil", "writeRegister", "writeCoils",
     "writeRegisters", "writeCustomFC"}

\* C25: every read or write request that reaches the transport has
\* 0 <= address and address + extent - 1 <= 65535, the extent being the read
\* count or the number of values written.
C25_RequestInAddressSpace ==
    \A c \in Slots :
        \A k \in 1..Len(calls[c].tcalls) :
            LET t == calls[c].tcalls[k]
            IN  t[1] \in RequestKinds =>
                    t[3] >= 0 /\ t[3] + t[4] - 1 <= 65535

\* the unsigned 16-bit number two bytes hold, high byte first
BigEndian(hi, lo) == hi * 256 + lo

\* a register value as an unsigned 16-bit number: itself, or its two's
\* complement when negative
TwosComplement(v) == IF v < 0 THEN v + 65536 ELSE v

\* C26: for an address in 0..65535 and n <= 127 register values, each in
\* -32768..65535, the custom write frame has exactly 5 + 2n bytes: the address
\* (2 bytes big-endian), n (2 bytes big-endian), 2n (1 byte), then each value
\* as 2 bytes big-endian, modulo 2^16; an address outside 0..65535 fails
\* before any transmission (on an engine that was connected when the write
\* was called).
C26_CustomFrameLayout ==
    \A c \in Slots :
        LET w == calls[c]
            vs == w.values.list
            n == Len(vs)
            f == w.frame
        IN  w.op = "write" /\ w.pc # "idle" /\ w.preOpen =>
                IF w.address \in 0..65535
                THEN /\ Len(w.tcalls) = 1 /\ w.tcalls[1][1] = "writeCustomFC"
                     /\ Len(f) = 5 + 2 * n
                     /\ \A k \in 1..Len(f) : f[k] \in 0..255
                     /\ BigEndian(f[1], f[2]) = w.address
                     /\ BigEndian(f[3], f[4]) = n
                     /\ f[5] = 2 * n
                     /\ \A i \in 1..n :
                           BigEndian(f[4 + 2 * i], f[5 + 2 * i]) = TwosComplement(vs[i])
                ELSE w.tcalls = <<>> /\ f = <<>> /\ w.pc = "done" /\ ~w.ok

\* the frame of the write of -32768 and 65535 to address 256 has been sent:
\* 01 00 00 02 04 80 00 FF FF
C26_Witness ==
    \E c \in Slots :
        /\ calls[c].op = "write" /\ calls[c].address = 256
        /\ calls[c].frame = <<1, 0, 0, 2, 4, 128, 0, 255, 255>>

\* the number a decimal numeral denotes: digits read by position, an
\* optional leading minus sign
RECURSIVE Positional(_)
Positional(d) ==
    IF Len(d) = 0 THEN 0
    ELSE 10 * Positional(SubSeq(d, 1, Len(d) - 1)) + DigitVal(d[Len(d)], 10)

IsNumeral(text) ==
    LET d == IF Len(text) > 0 /\ text[1] = "-" THEN Tail(text) ELSE text
    IN  Len(d) > 0 /\ \A i \in 1..Len(d) : DigitVal(d[i], 10) >= 0

DecimalOf(text) ==
    IF Len(text) > 0 /\ text[1] = "-" THEN 0 - Positional(Tail(text))
    ELSE Positional(text)

\* C27: for every register value v in 0..65535 the DEC_S display is v when
\* v <= 32767 and v - 65536 otherwise, so always in -32768..32767.
C27_SignedDecode ==
    [][clipboard' # clipboard /\ dataFormat = "DEC_S"
         /\ monitorData.values[selection.start + 1] \in 0..65535 =>
           LET v == monitorData.values[selection.start + 1]
               row == clipboard'[1]
           IN  /\ Len(clipboard') = 1 /\ IsNumeral(row)
               /\ DecimalOf(row) = IF v <= 32767 THEN v ELSE v - 65536
               /\ DecimalOf(row) \in -32768..32767]_vars

\* register value 32768 has been copied in the DEC_S format as -32768
C27_Witness ==
    /\ dataFormat = "DEC_S" /\ monitorData.values = <<32768>>
    /\ clipboard = << <<"-", "3", "2", "7", "6", "8">> >>

\* C28: for every register value v in 0..65535, editing its cell with the
\* text the DEC_U display shows for v stores exactly v.
C28_UnsignedRoundTrip ==
    [][editing.active /\ ~editing'.active /\ dataFormat = "DEC_U" =>
          LET i == editing.address - monitorData.startAddr + 1
              v == monitorData.values[i]
          IN  v \in 0..65535 /\ editing.text = formatValue(v, Undefined, "DEC_U")
                => /\ IsNumeral(editing.text) /\ DecimalOf(editing.text) = v
                   /\ monitorData'.values[i] = v
                   /\ monitorData' = monitorData]_vars

\* the cell of register value 65535 is being edited in the DEC_U format
\* with the text shown for it
C28_Witness ==
    /\ dataFormat = "DEC_U" /\ monitorData.values = <<65535>>
    /\ editing.active /\ editing.text = <<"6", "5", "5", "3", "5">>

\* the callbacks in a list
Members(list) == {list[i] : i \in 1..Len(list)}

\* C29: a publish delivers its entry exactly once each and in subscription
\* order to exactly the subscribers registered when the publish call began;
\* a subscriber added by a handler during the delivery does not receive the
\* entry in flight, and it is in the list the next publish delivers to.
C29_PublishDelivery ==
    [][/\ delivery'.k <= Len(delivery'.start)
       /\ delivery'.got = SubSeq(delivery'.start, 1, delivery'.k)
       /\ (delivery.active /\ ~delivery'.active) => delivery'.got = delivery'.start
       /\ (~delivery.active /\ delivery'.active) => delivery'.start = subscribers
       /\ (delivery.active /\ delivery'.active) =>
             /\ delivery'.start = delivery.start
             /\ delivery'.entry = delivery.entry]_vars

\* callback 1 has subscribed callback 2 while it was being called: 2 was
\* pushed onto the array forEach walks, and forEach has finished without
\* calling it
C29_Witness ==
    /\ delivery.active /\ delivery.k = delivery.len
    /\ delivery.start = <<1>> /\ delivery.got = <<1>>
    /\ delivery.arr = <<1, 2>> /\ subscribers = <<1, 2>>

\* C30: a handler that is not subscribed when a publish begins receives
\* nothing from it, and unsubscribing a callback that is not subscribed (a
\* second unsubscribe) changes neither the subscriber list nor the delivery.
C30_Unsubscribe ==
    [][/\ \A cb \in SubscriberIds :
            cb \notin Members(subscribers) /\ Unsubscribe(cb) =>
                subscribers' = subscribers /\ delivery' = delivery
       /\ \A cb \in SubscriberIds :
            cb \in Members(subscribers) /\ Unsubscribe(cb) =>
                /\ cb \notin Members(subscribers')
                /\ subscribers' = SelectSeq(subscribers, LAMBDA c : c # cb)
       /\ (~delivery.active /\ delivery'.active) =>
            delivery'.start = subscribers
       /\ delivery'.active =>
            Members(delivery'.got) \subseteq Members(delivery'.start)]_vars

\* the second publish has called the callbacks 1 and 3 subscribed when it
\* began, and no other; callback 1 has been unsubscribed since, by a handler
\* or after the publish
C30_Witness ==
    /\ delivery.entry = 2 /\ ~delivery.active
    /\ delivery.start = <<1, 3>> /\ delivery.got = <<1, 3>>
    /\ subscribers = <<3>>

\* this step is a step of a read or write call: the call begins, or its
\* transport transaction settles
TransactionStep(c) ==
    /\ calls'[c] # calls[c]
    /\ calls'[c].op \in {"read", "write"}
    /\ calls'[c].pc \in {"xfer", "done"}

\* C31: read and write calls never change the connection state of the
\* engine: at every step of such a call, whether it succeeds or fails with
\* any error, the handle slot holds what it held before and the handle it
\* holds is open exactly if it was.
C31_TransactionsKeepConnection ==
    [][\A c \in Slots :
          TransactionStep(c) =>
              /\ client' = client
              /\ client # 0 =>
                    (handles'[client].st = "open") = (handles[client].st = "open")
              /\ calls'[c].pc = "done" => calls'[c].preClient = client']_vars

\* a read on a connected engine has been rejected by the transport and the
\* handle slot still holds the open handle
C31_Witness ==
    \E c \in Slots :
        /\ Settled(c, "read") /\ calls[c].rejected /\ ~calls[c].ok
        /\ client # 0 /\ client = calls[c].preClient /\ IsOpen(client)


\* a handle that is open and is not the one in the handle slot
Orphan(h) == handles[h].st = "open" /\ h # client

\* connect call c settles in this step
ConnectSettles(c) ==
    /\ calls[c].op = "connect" /\ calls[c].pc \in {"closeOld", "open"}
    /\ calls'[c].pc = "done"

\* C32 as stated: once the connect calls have all resolved, no transport
\* handle is open other than the one in the handle slot, also when the
\* calls overlapped.
C32_NoOrphanAfterOverlap ==
    (\A c \in Slots : Settled(c, "connect")) => \A h \in Handles : ~Orphan(h)

\* C32: the engine does not queue connect calls. A handle is left open
\* outside the handle slot only in a step where a connect call settles while
\* the slot holds an open handle, which takes a connect call that began
\* while another call was in progress; the settling call then decides the
\* slot (its own handle when it opened, empty when it failed) and the
\* handle it displaced stays open.
C32_OrphanOnlyFromOverlap ==
    [][\A h \in Handles :
          (~Orphan(h) /\ Orphan(h)') =>
              \E c \in Slots :
                  /\ ConnectSettles(c)
                  /\ client = h
                  /\ client' = (IF calls'[c].ok THEN calls[c].h ELSE 0)
                  /\ \E d \in Slots : calls[d].preBusy]_vars

C32_Witness ==
    /\ \A c \in Slots : Settled(c, "connect")
    /\ \E c \in Slots : calls[c].preBusy
    /\ \E h \in Handles : Orphan(h)
    /\ IsOpen(client)


\* C33: every write request the UI sends carries a payload whose shape
\* matches its function code: a single value for codes 5 and 6, a list of
\* exactly count values for codes 15, 16 and the custom codes.
C33_PayloadShapeMatchesCode ==
    \A c \in Slots :
        (calls[c].op = "write" /\ uiops[c].kind = "write") =>
            IF calls[c].fc \in {5, 6}
            THEN calls[c].values.scalar
            ELSE /\ ~calls[c].values.scalar
                 /\ Len(calls[c].values.list) = uiops[c].count


\* C34: each logger entry is published for a call that itself exchanged
\* bytes: a read or write call that issued no transport transaction (an
\* unsupported read code, a custom write rejected before the frame is
\* built) publishes nothing, also after an earlier successful transaction.
C34_NoEntryWithoutTraffic ==
    \A c \in Slots :
        (calls[c].op \in {"read", "write"} /\ calls[c].pc = "done"
            /\ calls[c].tcalls = <<>>) => calls[c].pub = 0


\* the reply to the disconnect command reaches its caller in this step
DisconnectReplies(c) == uiops[c].kind = "disconnect" /\ uiops'[c].kind = "none"

\* C35: when the disconnect command resolves to its caller the previous
\* handle has finished closing, so that a connect issued afterwards never
\* starts opening a handle while the old one is still closing.
C35_DisconnectRepliesAfterClose ==
    [][\A c \in Slots :
          DisconnectReplies(c) =>
              \A h \in Handles : handles[h].st # "closing"]_vars


\* C36: in the HEX and the DEC_S format, for every register value v in
\* 0..65535, editing its cell with the text the grid shows for v stores
\* exactly v: re-entering the displayed text never changes the register.
C36_DisplayedTextRoundTrip ==
    [][editing.active /\ ~editing'.active /\ dataFormat \in {"HEX", "DEC_S"} =>
          LET i == editing.address - monitorData.startAddr + 1
              v == monitorData.values[i]
          IN  v \in 0..65535 /\ editing.text = formatValue(v, Undefined, dataFormat)
                => monitorData'.values[i] = v]_vars


\* C37: once the session is disconnected (after a disconnect command or a
\* failed connect) auto-poll is disengaged: auto-read is off and no timer
\* is armed while the session is not connected, a connect that succeeds
\* afterwards leaves both off, a tick issues a read only with auto-read on,
\* and auto-read goes on only through the Auto button of a connected
\* session.
C37_ReconnectDoesNotPoll ==
    [][/\ ~connected' => (~autoRead' /\ ~interval')
       /\ (~connected /\ connected') => (~autoRead' /\ ~interval')
       /\ NewTickRead => (autoRead /\ connected /\ interval)
       /\ (~autoRead /\ autoRead') =>
             (connected /\ UNCHANGED <<engineVars, uiops, sending, connected>>)]_vars

\* a session that held a snapshot, was disconnected and has just been
\* connected again: auto-read is off and no timer is armed
C37_Witness ==
    /\ connected /\ logs = addLog("Connected")
    /\ monitorData.present
    /\ ~autoRead /\ ~interval

====
